---- MODULE Spec2Model ----
(***************************************************************************)
(* A model of the CSV codec of csv.c: the row container, the streaming     *)
(* parser csv_parse_next_row (one action per branch of its while/switch)   *)
(* and the writer csv_write_row.  Bytes are their integer values, a field  *)
(* is the sequence of the bytes stored for it (without the trailing NUL),  *)
(* a FILE is a record of its bytes, its read position and its error flag.  *)
(***************************************************************************)
EXTENDS Integers, Sequences, FiniteSets, TLC

VARIABLES
    file,       \* the FILE read by the parser: [data, pos, error]
    parser,     \* csv_parser_t: [field_delimiter]
    pc,         \* "idle": outside csv_parse_next_row; "loop": at the top of its while (1)
    state,      \* local `state` of csv_parse_next_row
    quoted,     \* local `quoted`
    buffer,     \* local `buffer`: [len, capacity, p]
    row,        \* local `row`: [len, capacity, fields]
    heap,       \* blocks csv_parse_next_row allocated and neither freed nor returned
    ret,        \* what the last call returned: "none" (no call yet, or in a call), "row", "null"
    err,        \* the caller's csv_error_t *err
    rows,       \* history: the rows returned so far (each the sequence of its fields)
    start,      \* history: file.pos when the current/last call began
    ndelim,     \* history: field delimiters that closed a field in the current/last call
    exit,       \* history: source line of the return the last call took
    writer,     \* csv_writer_t: [field_delimiter, quote_style, line_break]
    out,        \* the bytes the writer's FILE has received
    wrow,       \* the row the writing program builds
    written,    \* history: the rows handed to successful csv_write_row calls
    wret,       \* what the last csv_write_row returned, with the history of that call
    phase,      \* "write": the program writes rows; "read": it parses; "new",
                \* "errors", "rows": it calls the constructors, the error
                \* functions, the row functions
    call,       \* history: the last constructor, error or row call and its result
    errs        \* the csv_error_t objects: errs[1] is GLOBAL_OOM, the others were
                \* allocated by csv_error_new: [error_code, message, freed]

vars == <<file, parser, pc, state, quoted, buffer, row, heap, ret, err, rows, start,
          ndelim, exit, writer, out, wrow, written, wret, phase, call, errs>>

(***************************************************************************)
(* Bounds of the model.                                                    *)
(***************************************************************************)
MaxLen == 5
MaxLenEnv == 3
MaxWeight == 5
MaxWeightW == 5
MaxLenBig == 2
MaxErrs == 3
MaxRowCalls == 4
MaxLenOom == 1
MaxWeightOom == 3
MaxFailAt == 3
MaxWeightFail == 4
MaxFailAtW == 7
MaxLenLive == 3

(***************************************************************************)
(* Program constants.                                                      *)
(***************************************************************************)
EOF == -1
NUL == 0
QUOTE_CHAR == 34
COMMA_CHAR == 44
CR_CHAR == 13
LF_CHAR == 10

SUCCEED == 0
FAIL == -1

CSV_ENOMEMORY == 1
CSV_EINVALID_FIELD_DELIMITER == 2
CSV_EIO == 3
CSV_EINVALID_FORMAT == 4
CSV_EINVALID_QUOTE_STYLE == 5
CSV_EINVALID_LINEBREAK == 6

ST_START == "ST_START"
ST_INFIELD == "ST_INFIELD"

RowInitCapacity == 32
BufferInitCapacity == 256

\* The bytes the model draws inputs from: the four bytes the format gives a
\* meaning, one ordinary byte ('a') and one more byte (';') that is a
\* delimiter for some parsers and an ordinary byte for the others.
InputBytes == {QUOTE_CHAR, COMMA_CHAR, CR_CHAR, LF_CHAR, 97}
Delimiters == {COMMA_CHAR, 59}

RECURSIVE SeqsUpTo(_, _)
SeqsUpTo(S, n) ==
    IF n = 0 THEN {<<>>}
    ELSE LET T == SeqsUpTo(S, n - 1)
         IN  T \cup {Append(t, x) : t \in {u \in T : Len(u) = n - 1}, x \in S}

(***************************************************************************)
(* Error values.                                                           *)
(***************************************************************************)
NULL == [error_code |-> 0, message |-> "NULL"]

GLOBAL_OOM == [error_code |-> CSV_ENOMEMORY, message |-> "out of memory"]

csv_error_oom == GLOBAL_OOM

\* `oom` names the allocation site whose malloc returns NULL in this step
\* ("none": every malloc succeeds).
xmalloc_ErrNotSet(site, oom, e) ==
    [ok |-> oom # site, err |-> e]

xmalloc(site, oom, e) ==
    [ok |-> oom # site, err |-> IF oom = site THEN csv_error_oom ELSE e]

csv_error_new(error_code, message, oom) ==
    IF error_code = CSV_ENOMEMORY THEN csv_error_oom
    ELSE IF oom = "err" THEN csv_error_oom
    ELSE IF oom = "err_message" THEN csv_error_oom
    ELSE [error_code |-> error_code, message |-> message]

\* csv_error_new and csv_error_free on the objects es: the address returned
\* (1 is &GLOBAL_OOM), the objects after the call, the malloc calls made.
csv_error_new_in(es, error_code, message, oom) ==
    IF error_code = CSV_ENOMEMORY THEN [addr |-> 1, errs |-> es, mallocs |-> 0]
    ELSE IF oom = "err" THEN [addr |-> 1, errs |-> es, mallocs |-> 1]
    ELSE IF oom = "err_message" THEN [addr |-> 1, errs |-> es, mallocs |-> 2]
    ELSE [addr |-> Len(es) + 1,
          errs |-> Append(es, [error_code |-> error_code, message |-> message,
                               freed |-> FALSE]),
          mallocs |-> 2]

\* csv_error_free that frees whatever it is given
csv_error_free_All(es, a) == [es EXCEPT ![a].freed = TRUE]

csv_error_free(es, a) ==
    IF es[a].error_code = CSV_ENOMEMORY THEN es
    ELSE [es EXCEPT ![a].freed = TRUE]

(***************************************************************************)
(* The byte source (stdio).  io = TRUE: this read fails, which returns EOF *)
(* and sets the stream's error indicator.                                  *)
(***************************************************************************)
fgetc(f, io) ==
    IF io THEN [c |-> EOF, f |-> [f EXCEPT !.error = TRUE]]
    ELSE IF f.pos > Len(f.data) THEN [c |-> EOF, f |-> f]
    ELSE [c |-> f.data[f.pos], f |-> [f EXCEPT !.pos = @ + 1]]

\* ungetc that also pushes back the byte read before c
ungetc_Two(c, f) == [f EXCEPT !.pos = @ - 2]

\* Only ever called with the byte fgetc just returned.
ungetc(c, f) == [f EXCEPT !.pos = @ - 1]

ferror(f) == f.error

(***************************************************************************)
(* The row container.                                                      *)
(***************************************************************************)
\* A slot of row->fields is <<>> for NULL and <<s, a>> for a pointer: s is
\* the allocated copy it points at and a its address; slot i of the C array
\* is fields[i + 1].
csv_row_new == [len |-> 0, capacity |-> RowInitCapacity,
                fields |-> [i \in 1..RowInitCapacity |-> <<>>]]

csv_row_expand_fields_ShortCopy(r, oom, e) ==
    LET m == xmalloc("new_fields", oom, e)
        new_cap == r.capacity * 2
    IN  IF ~m.ok THEN [res |-> FAIL, row |-> r, err |-> m.err]
        ELSE [res |-> SUCCEED,
              row |-> [r EXCEPT !.capacity = new_cap,
                                !.fields = [i \in 1..new_cap |->
                                              IF i < r.len THEN r.fields[i]
                                              ELSE <<>>]],
              err |-> e]

csv_row_expand_fields(r, oom, e) ==
    LET m == xmalloc("new_fields", oom, e)
        new_cap == r.capacity * 2
    IN  IF ~m.ok THEN [res |-> FAIL, row |-> r, err |-> m.err]
        ELSE [res |-> SUCCEED,
              row |-> [r EXCEPT !.capacity = new_cap,
                                !.fields = [i \in 1..new_cap |->
                                              IF i <= r.len THEN r.fields[i]
                                              ELSE <<>>]],
              err |-> e]

csv_row_field_count(r) == r.len

\* The stored bytes of field idx (C index, from 0); the char * the code
\* returns points at these bytes followed by a NUL.
csv_row_field_get(r, idx) == r.fields[idx + 1][1]

\* The addresses the slots of the row hold.
Held(r) == {r.fields[i][2] : i \in {j \in 1..r.capacity : r.fields[j] # <<>>}}

\* What malloc returns for a field copy: a block that is not allocated, here
\* the lowest address no slot of the row holds.
FreshAddress(r) ==
    CHOOSE a \in 1..(r.capacity + 1) :
        a \notin Held(r) /\ \A b \in 1..(a - 1) : b \in Held(r)

csv_row_append_field_CountsFirst(r, field, len, oom, e) ==
    LET x == IF r.len >= r.capacity
             THEN csv_row_expand_fields(r, oom, e)
             ELSE [res |-> SUCCEED, row |-> r, err |-> e]
        m == xmalloc("s", oom, e)
    IN  IF x.res = FAIL THEN x
        ELSE IF ~m.ok THEN [res |-> FAIL,
                            row |-> [x.row EXCEPT !.len = @ + 1], err |-> m.err]
        ELSE [res |-> SUCCEED,
              row |-> [x.row EXCEPT !.len = @ + 1,
                                    !.fields[x.row.len + 1] =
                                        <<SubSeq(field, 1, len), FreshAddress(x.row)>>],
              err |-> e]

csv_row_append_field_NoCount(r, field, len, oom, e) ==
    LET x == IF r.len >= r.capacity
             THEN csv_row_expand_fields(r, oom, e)
             ELSE [res |-> SUCCEED, row |-> r, err |-> e]
        m == xmalloc("s", oom, e)
    IN  IF x.res = FAIL THEN x
        ELSE IF ~m.ok THEN [res |-> FAIL, row |-> x.row, err |-> m.err]
        ELSE [res |-> SUCCEED,
              row |-> [x.row EXCEPT !.fields[x.row.len + 1] =
                                        <<SubSeq(field, 1, len), FreshAddress(x.row)>>],
              err |-> e]

csv_row_append_field(r, field, len, oom, e) ==
    LET x == IF r.len >= r.capacity
             THEN csv_row_expand_fields(r, oom, e)
             ELSE [res |-> SUCCEED, row |-> r, err |-> e]
        m == xmalloc("s", oom, e)
    IN  IF x.res = FAIL THEN x
        ELSE IF ~m.ok THEN [res |-> FAIL, row |-> x.row, err |-> m.err]
        ELSE [res |-> SUCCEED,
              row |-> [x.row EXCEPT !.len = @ + 1,
                                    !.fields[x.row.len + 1] =
                                        <<SubSeq(field, 1, len), FreshAddress(x.row)>>],
              err |-> e]

csv_row_reset_LenOnly(r) ==
    [r EXCEPT !.len = 0]

csv_row_reset(r) ==
    [r EXCEPT !.len = 0,
              !.fields = [i \in 1..r.capacity |->
                            IF i <= r.len THEN <<>> ELSE r.fields[i]]]

\* The pointers csv_row_free passes to free, in order: every slot of the
\* table, NULL ones included (free(NULL) does nothing).
csv_row_free_frees(r) == [i \in 1..r.capacity |-> r.fields[i]]

\* The fields of a row as its caller reads them, one csv_row_field_get for
\* each index below csv_row_field_count.
Fields(r) == [i \in 1..csv_row_field_count(r) |-> csv_row_field_get(r, i - 1)]

\* csv_row_new as its caller sees it: the row, or NULL and the error when
\* the malloc of the row ("row") or of its slot table ("row_fields") fails.
csv_row_new_err(oom, e) ==
    LET r1 == xmalloc("row", oom, e)
        r2 == xmalloc("row_fields", oom, e)
    IN  IF ~r1.ok THEN [obj |-> [null |-> TRUE], err |-> r1.err]
        ELSE IF ~r2.ok THEN [obj |-> [null |-> TRUE], err |-> r2.err]
        ELSE [obj |-> csv_row_new, err |-> e]

\* The pointers csv_row_reset passes to free, in order.
csv_row_reset_frees(r) == [i \in 1..r.len |-> r.fields[i]]

(***************************************************************************)
(* The parse buffer.                                                       *)
(***************************************************************************)
buffer_new == [len |-> 0, capacity |-> BufferInitCapacity, p |-> <<>>]

buffer_reset(b) == [b EXCEPT !.len = 0, !.p = <<>>]

\* buffer_putc whose copy loop stops one byte short when the buffer grows
buffer_putc_ShortCopy(b, c, oom, e) ==
    LET m == xmalloc("new_p", oom, e)
        grown == IF b.len >= b.capacity
                 THEN [b EXCEPT !.capacity = b.capacity * 2,
                                !.p = SubSeq(b.p, 1, b.capacity - 1) \o <<NUL>>]
                 ELSE b
    IN  IF b.len >= b.capacity /\ ~m.ok THEN [res |-> FAIL, buffer |-> b, err |-> m.err]
        ELSE [res |-> SUCCEED,
              buffer |-> [grown EXCEPT !.len = @ + 1, !.p = Append(@, c)],
              err |-> e]

buffer_putc(b, c, oom, e) ==
    LET m == xmalloc("new_p", oom, e)
        grown == IF b.len >= b.capacity
                 THEN [b EXCEPT !.capacity = b.capacity * 2,
                                !.p = SubSeq(b.p, 1, b.capacity)]
                 ELSE b
    IN  IF b.len >= b.capacity /\ ~m.ok THEN [res |-> FAIL, buffer |-> b, err |-> m.err]
        ELSE [res |-> SUCCEED,
              buffer |-> [grown EXCEPT !.len = @ + 1, !.p = Append(@, c)],
              err |-> e]

csv_row_append_field_with_buffer(r, b, oom, e) ==
    csv_row_append_field(r, b.p, b.len, oom, e)

(***************************************************************************)
(* Construction.  A constructor gives [obj, err]: the instance, or NoObj   *)
(* for a NULL return, and the caller's *err after the call.                *)
(***************************************************************************)
NoObj == [null |-> TRUE]

is_valid_field_delimiter(c) == c \notin {CR_CHAR, LF_CHAR, QUOTE_CHAR}

csv_parser_new(oom, e) ==
    LET m == xmalloc("parser", oom, e)
    IN  IF ~m.ok THEN [obj |-> NoObj, err |-> m.err]
        ELSE [obj |-> [field_delimiter |-> COMMA_CHAR], err |-> e]

csv_parser_new_with_field_delimiter(field_delimiter, oom, e) ==
    IF ~is_valid_field_delimiter(field_delimiter)
    THEN [obj |-> NoObj,
          err |-> csv_error_new(CSV_EINVALID_FIELD_DELIMITER, "invalid field delimiter", oom)]
    ELSE LET p == csv_parser_new(oom, e)
         IN  IF p.obj # NoObj
             THEN [p EXCEPT !.obj = [field_delimiter |-> field_delimiter]]
             ELSE p

(***************************************************************************)
(* The parser.  L is the record of csv_parse_next_row's locals.            *)
(***************************************************************************)
consume_end_of_line(c, f, io) ==
    IF c = CR_CHAR
    THEN LET g == fgetc(f, io)
         IN  IF g.c # LF_CHAR /\ g.c # EOF THEN ungetc(g.c, g.f) ELSE g.f
    ELSE f

\* goto FAILURE_RETURN with *err = e: csv_row_free(row); buffer_free(buffer); return NULL
FAILURE_RETURN(L, e) ==
    [L EXCEPT !.err = e, !.heap = @ \ {"row", "buffer"}, !.status = "null", !.exit = 472]

\* buffer_free(buffer); return row, at source line `line`
ReturnRow(L, line) ==
    [L EXCEPT !.heap = @ \ {"row", "buffer"}, !.status = "row", !.exit = line]

\* csv_row_append_field_with_buffer(row, buffer, err), with goto
\* FAILURE_RETURN on failure
Appended(L, oom) ==
    LET a == csv_row_append_field_with_buffer(L.row, L.buffer, oom, L.err)
    IN  IF a.res = FAIL THEN FAILURE_RETURN([L EXCEPT !.row = a.row], a.err)
        ELSE [L EXCEPT !.row = a.row]

\* buffer_putc(buffer, c, err), with goto FAILURE_RETURN on failure
Put(L, c, oom) ==
    LET b == buffer_putc(L.buffer, c, oom, L.err)
    IN  IF b.res = FAIL THEN FAILURE_RETURN(L, b.err)
        ELSE [L EXCEPT !.buffer = b.buffer]

\* What follows a call in a branch runs unless the call went to FAILURE_RETURN.
ThenReturnRow(L, line) == IF L.status = "loop" THEN ReturnRow(L, line) ELSE L

\* ThenNextField that leaves quoted as it is
ThenNextField_KeepsQuoted(L) ==
    IF L.status = "loop"
    THEN [L EXCEPT !.buffer = buffer_reset(@), !.state = ST_START, !.ndelim = @ + 1]
    ELSE L

\* buffer_reset(buffer); state = ST_START; quoted = 0
ThenNextField(L) ==
    IF L.status = "loop"
    THEN [L EXCEPT !.buffer = buffer_reset(@), !.state = ST_START, !.quoted = FALSE,
                   !.ndelim = @ + 1]
    ELSE L

\* state = ST_INFIELD
ThenInField(L) == IF L.status = "loop" THEN [L EXCEPT !.state = ST_INFIELD] ELSE L

StartQuoteBr(L, c, io2, oom) == [L EXCEPT !.quoted = TRUE, !.state = ST_INFIELD]

\* StartEofBr without the append of the field a trailing delimiter opened
StartEofBr_NoFinalField(L, c, io2, oom) ==
    IF ferror(L.file) THEN FAILURE_RETURN(L, csv_error_new(CSV_EIO, "strerror", oom))
    ELSE IF L.row.len > 0 THEN ReturnRow(L, 347)
         ELSE [L EXCEPT !.heap = @ \ {"row", "buffer"}, !.status = "null", !.exit = 351]

StartEofBr(L, c, io2, oom) ==
    IF ferror(L.file) THEN FAILURE_RETURN(L, csv_error_new(CSV_EIO, "strerror", oom))
    ELSE IF L.row.len > 0 THEN ThenReturnRow(Appended(L, oom), 347)
         ELSE [L EXCEPT !.heap = @ \ {"row", "buffer"}, !.status = "null", !.exit = 351]

\* StartEolBr that skips a blank line instead of returning a row of no field
StartEolBr_SkipBlank(L, c, io2, oom) ==
    LET M == [L EXCEPT !.file = consume_end_of_line(c, L.file, io2)]
    IN  IF M.row.len > 0 THEN ThenReturnRow(Appended(M, oom), 366) ELSE M

StartEolBr(L, c, io2, oom) ==
    LET M == [L EXCEPT !.file = consume_end_of_line(c, L.file, io2)]
    IN  IF M.row.len > 0 THEN ThenReturnRow(Appended(M, oom), 366) ELSE ReturnRow(M, 366)

StartDelimBr(L, c, io2, oom) == ThenNextField(Appended(L, oom))

StartCharBr(L, c, io2, oom) == ThenInField(Put(L, c, oom))

\* InQuoteBr that takes a quote inside an unquoted field as a literal byte
InQuoteBr_Lenient(L, c, io2, oom) ==
    IF ~L.quoted
    THEN Put(L, c, oom)
    ELSE LET g == fgetc(L.file, io2)
             lookahead == g.c
             M == [L EXCEPT !.file = g.f]
         IN  IF lookahead = QUOTE_CHAR THEN Put(M, QUOTE_CHAR, oom)
             ELSE IF lookahead = parser.field_delimiter THEN ThenNextField(Appended(M, oom))
             ELSE IF lookahead = CR_CHAR \/ lookahead = LF_CHAR
                  THEN ThenReturnRow(
                           Appended([M EXCEPT !.file = consume_end_of_line(c, M.file, FALSE)],
                                    oom), 409)
             ELSE FAILURE_RETURN(M, csv_error_new(CSV_EINVALID_FORMAT,
                                     "closing quote can only followed by eol or delimiter", oom))

InQuoteBr(L, c, io2, oom) ==
    IF ~L.quoted
    THEN FAILURE_RETURN(L, csv_error_new(CSV_EINVALID_FORMAT, "quote should be quoted", oom))
    ELSE LET g == fgetc(L.file, io2)
             lookahead == g.c
             M == [L EXCEPT !.file = g.f]
         IN  IF lookahead = QUOTE_CHAR THEN Put(M, QUOTE_CHAR, oom)
             ELSE IF lookahead = parser.field_delimiter THEN ThenNextField(Appended(M, oom))
             ELSE IF lookahead = CR_CHAR \/ lookahead = LF_CHAR
                  \* line 404 passes c, which is the quote here, so
                  \* consume_end_of_line reads nothing and its read needs no
                  \* outcome of its own
                  THEN ThenReturnRow(
                           Appended([M EXCEPT !.file = consume_end_of_line(c, M.file, FALSE)],
                                    oom), 409)
             ELSE FAILURE_RETURN(M, csv_error_new(CSV_EINVALID_FORMAT,
                                     "closing quote can only followed by eol or delimiter", oom))

\* InEofBr that fails on an unclosed quote without setting *err
InEofBr_Silent(L, c, io2, oom) ==
    IF ferror(L.file) THEN FAILURE_RETURN(L, csv_error_new(CSV_EIO, "strerror", oom))
    ELSE IF L.quoted THEN FAILURE_RETURN(L, L.err)
         ELSE ThenReturnRow(Appended(L, oom), 429)

InEofBr(L, c, io2, oom) ==
    IF ferror(L.file) THEN FAILURE_RETURN(L, csv_error_new(CSV_EIO, "strerror", oom))
    ELSE IF L.quoted
         THEN FAILURE_RETURN(L, csv_error_new(CSV_EINVALID_FORMAT, "unclosed quote", oom))
         ELSE ThenReturnRow(Appended(L, oom), 429)

\* InEolBr that ends the row at a CR or LF inside quotes too
InEolBr_Unquoted(L, c, io2, oom) ==
    ThenReturnRow(Appended([L EXCEPT !.file = consume_end_of_line(c, L.file, io2)], oom), 443)

InEolBr(L, c, io2, oom) ==
    IF L.quoted THEN Put(L, c, oom)
    ELSE ThenReturnRow(Appended([L EXCEPT !.file = consume_end_of_line(c, L.file, io2)], oom),
                       443)

InDelimBr(L, c, io2, oom) ==
    IF L.quoted THEN Put(L, c, oom)
    ELSE ThenNextField(Appended(L, oom))

InCharBr(L, c, io2, oom) == Put(L, c, oom)

\* The conditions of the if/else-if chains, in the order the code tests them.
IsQuote(c) == c = QUOTE_CHAR
IsEof(c) == c # QUOTE_CHAR /\ c = EOF
IsEol(c) == c # QUOTE_CHAR /\ c # EOF /\ (c = CR_CHAR \/ c = LF_CHAR)
IsDelim(c) ==
    /\ c # QUOTE_CHAR /\ c # EOF /\ c # CR_CHAR /\ c # LF_CHAR
    /\ c = parser.field_delimiter
IsChar(c) ==
    /\ c # QUOTE_CHAR /\ c # EOF /\ c # CR_CHAR /\ c # LF_CHAR
    /\ c # parser.field_delimiter

\* The branch of the chain that a byte read takes.
ClassOf(c) ==
    IF IsQuote(c) THEN "quote"
    ELSE IF IsEof(c) THEN "eof"
    ELSE IF IsEol(c) THEN "eol"
    ELSE IF IsDelim(c) THEN "delim"
    ELSE "char"

\* One iteration of the while (1) after c = fgetc(parser->file).
LoopBody(L, c, io2, oom) ==
    IF L.state = ST_START
    THEN CASE IsQuote(c) -> StartQuoteBr(L, c, io2, oom)
           [] IsEof(c)   -> StartEofBr(L, c, io2, oom)
           [] IsEol(c)   -> StartEolBr(L, c, io2, oom)
           [] IsDelim(c) -> StartDelimBr(L, c, io2, oom)
           [] OTHER      -> StartCharBr(L, c, io2, oom)
    ELSE CASE IsQuote(c) -> InQuoteBr(L, c, io2, oom)
           [] IsEof(c)   -> InEofBr(L, c, io2, oom)
           [] IsEol(c)   -> InEolBr(L, c, io2, oom)
           [] IsDelim(c) -> InDelimBr(L, c, io2, oom)
           [] OTHER      -> InCharBr(L, c, io2, oom)

(***************************************************************************)
(* csv_parse_next_row as a state machine: Enter is the code up to the      *)
(* while (1), every other action is one iteration of the loop, named after *)
(* the state and the class of the byte read.                               *)
(***************************************************************************)
\* csv_parse_next_row as one step: the whole call on FILE f with *err = e,
\* when no read and no allocation fails.
RECURSIVE RunLoop(_)
RunLoop(L) ==
    IF L.status # "loop" THEN L
    ELSE LET g == fgetc(L.file, FALSE)
         IN  RunLoop(LoopBody([L EXCEPT !.file = g.f], g.c, FALSE, "none"))

\* ParseBegin that goes on with the row of the call before
ParseBegin_KeepsRow(L, oom) ==
    LET L0 == [L EXCEPT !.state = ST_START, !.quoted = FALSE, !.ndelim = 0,
                        !.buffer = buffer_new,
                        !.heap = {"buffer", "row"}, !.status = "loop", !.exit = 0]
        b1 == xmalloc("buffer", oom, L.err)
        b2 == xmalloc("buffer_p", oom, L.err)
        r1 == xmalloc("row", oom, L.err)
        r2 == xmalloc("row_fields", oom, L.err)
    IN  IF ~b1.ok
        THEN [L0 EXCEPT !.heap = {}, !.status = "null", !.exit = 313, !.err = b1.err]
        ELSE IF ~b2.ok
        THEN [L0 EXCEPT !.heap = {}, !.status = "null", !.exit = 313, !.err = b2.err]
        ELSE IF ~r1.ok
        THEN [L0 EXCEPT !.heap = {"buffer"}, !.status = "null", !.exit = 317, !.err = r1.err]
        ELSE IF ~r2.ok
        THEN [L0 EXCEPT !.heap = {"buffer"}, !.status = "null", !.exit = 317, !.err = r2.err]
        ELSE L0

\* Lines 311-320 of csv_parse_next_row: the locals before the while (1).
ParseBegin(L, oom) ==
    LET L0 == [L EXCEPT !.state = ST_START, !.quoted = FALSE, !.ndelim = 0,
                        !.buffer = buffer_new, !.row = csv_row_new,
                        !.heap = {"buffer", "row"}, !.status = "loop", !.exit = 0]
        b1 == xmalloc("buffer", oom, L.err)
        b2 == xmalloc("buffer_p", oom, L.err)
        r1 == xmalloc("row", oom, L.err)
        r2 == xmalloc("row_fields", oom, L.err)
    IN  IF ~b1.ok
        THEN [L0 EXCEPT !.heap = {}, !.status = "null", !.exit = 313, !.err = b1.err]
        ELSE IF ~b2.ok
        THEN [L0 EXCEPT !.heap = {}, !.status = "null", !.exit = 313, !.err = b2.err]
        ELSE IF ~r1.ok
        THEN [L0 EXCEPT !.heap = {"buffer"}, !.status = "null", !.exit = 317, !.err = r1.err]
        ELSE IF ~r2.ok
        THEN [L0 EXCEPT !.heap = {"buffer"}, !.status = "null", !.exit = 317, !.err = r2.err]
        ELSE L0

csv_parse_next_row(f, e) ==
    RunLoop(ParseBegin([file |-> f, state |-> ST_START, quoted |-> FALSE,
                        buffer |-> buffer_new, row |-> csv_row_new, heap |-> {},
                        err |-> e, ndelim |-> 0, status |-> "loop", exit |-> 0], "none"))

\* The caller's loop of example_read_csv: call until NULL is returned.
RECURSIVE ParseAllFrom(_, _)
ParseAllFrom(f, acc) ==
    LET L == csv_parse_next_row(f, NULL)
    IN  IF L.status = "row" THEN ParseAllFrom(L.file, Append(acc, Fields(L.row)))
        ELSE [rows |-> acc, err |-> L.err]

ParseAll(data) == ParseAllFrom([data |-> data, pos |-> 1, error |-> FALSE], <<>>)

(***************************************************************************)
(* The writer.  W is the writer's FILE and what the call has done so far:  *)
(* [out, n, res, err, need_quote, field_out], n the fputs calls made,      *)
(* need_quote the value of csv_write_field's local for each field written, *)
(* field_out the bytes written for each field, from its opening to its     *)
(* closing quote.  failAt = k makes the k-th fputs of the call fail (0:    *)
(* none fails).                                                            *)
(***************************************************************************)
QUOTE_ALL == 0
QUOTE_MINIMAL == 1
LINEBREAK_LF == 0
LINEBREAK_CRLF == 1
LINEBREAK_CR == 2

\* csv_writer_new without the check of line_break
csv_writer_new_NoLineBreakCheck(field_delimiter, quote_style, line_break, oom, e) ==
    IF ~is_valid_field_delimiter(field_delimiter)
    THEN [obj |-> NoObj,
          err |-> csv_error_new(CSV_EINVALID_FIELD_DELIMITER, "invalid field delimiter", oom)]
    ELSE IF quote_style # QUOTE_ALL /\ quote_style # QUOTE_MINIMAL
    THEN [obj |-> NoObj,
          err |-> csv_error_new(CSV_EINVALID_QUOTE_STYLE, "invalid quote style", oom)]
    ELSE LET m == xmalloc("writer", oom, e)
         IN  IF ~m.ok THEN [obj |-> NoObj, err |-> m.err]
             ELSE [obj |-> [field_delimiter |-> field_delimiter,
                            quote_style |-> quote_style, line_break |-> line_break],
                   err |-> e]

csv_writer_new(field_delimiter, quote_style, line_break, oom, e) ==
    IF ~is_valid_field_delimiter(field_delimiter)
    THEN [obj |-> NoObj,
          err |-> csv_error_new(CSV_EINVALID_FIELD_DELIMITER, "invalid field delimiter", oom)]
    ELSE IF quote_style # QUOTE_ALL /\ quote_style # QUOTE_MINIMAL
    THEN [obj |-> NoObj,
          err |-> csv_error_new(CSV_EINVALID_QUOTE_STYLE, "invalid quote style", oom)]
    ELSE IF line_break # LINEBREAK_LF /\ line_break # LINEBREAK_CRLF
            /\ line_break # LINEBREAK_CR
    THEN [obj |-> NoObj,
          err |-> csv_error_new(CSV_EINVALID_LINEBREAK, "invalid line break", oom)]
    ELSE LET m == xmalloc("writer", oom, e)
         IN  IF ~m.ok THEN [obj |-> NoObj, err |-> m.err]
             ELSE [obj |-> [field_delimiter |-> field_delimiter,
                            quote_style |-> quote_style, line_break |-> line_break],
                   err |-> e]

csv_writer_default(oom, e) ==
    csv_writer_new(COMMA_CHAR, QUOTE_MINIMAL, LINEBREAK_LF, oom, e)

CR_STR == <<CR_CHAR>>
LF_STR == <<LF_CHAR>>
CRLF_STR == <<CR_CHAR, LF_CHAR>>
DOUBLE_QUOTES_STR == <<QUOTE_CHAR, QUOTE_CHAR>>

\* The C string that starts at the first of the bytes s, which a NUL follows.
RECURSIVE CStr(_)
CStr(s) == IF s = <<>> \/ Head(s) = NUL THEN <<>> ELSE <<Head(s)>> \o CStr(Tail(s))

fputs(str, o) == o \o CStr(str)

\* An fputs that fails: it returns EOF, and of the C string at most k bytes
\* have got out.
fputs_fails(str, o, k) ==
    o \o SubSeq(CStr(str), 1, IF k < Len(CStr(str)) THEN k ELSE Len(CStr(str)))

csv_write_str(W, str, failAt) ==
    IF W.n + 1 = failAt
    THEN [W EXCEPT !.n = @ + 1, !.res = FAIL, !.out = fputs_fails(str, @, W.partial),
                   !.err = csv_error_new(CSV_EIO, "strerror", W.oom)]
    ELSE [W EXCEPT !.n = @ + 1, !.res = SUCCEED, !.out = fputs(str, @)]

csv_write_char(W, c, failAt) == csv_write_str(W, <<c>>, failAt)

csv_write_newline(W, w, failAt) ==
    LET newline == IF w.line_break = LINEBREAK_LF THEN LF_STR
                   ELSE IF w.line_break = LINEBREAK_CRLF THEN CRLF_STR
                   ELSE CR_STR
    IN  csv_write_str(W, newline, failAt)

\* Lines 559-564: the scan that decides need_quote under QUOTE_MINIMAL.
NeedQuoteScan(w, field) ==
    \E i \in 1..Len(CStr(field)) :
        LET p == CStr(field)[i]
        IN  p = CR_CHAR \/ p = LF_CHAR \/ p = QUOTE_CHAR \/ p = w.field_delimiter

\* The value of an expression, evaluated once: the one element of {e}.
Only(S) == CHOOSE x \in S : TRUE

\* WriteContent that writes a quote of the field as it is, not doubled
RECURSIVE WriteContent_NoEscape(_, _, _, _)
WriteContent_NoEscape(W, str, i, failAt) ==
    IF i > Len(str) THEN W
    ELSE Only({IF V.res = FAIL THEN V ELSE WriteContent_NoEscape(V, str, i + 1, failAt) :
                 V \in {csv_write_char(W, str[i], failAt)}})

\* Lines 573-581: the content loop, from the i-th byte of the C string.
RECURSIVE WriteContent(_, _, _, _)
WriteContent(W, str, i, failAt) ==
    IF i > Len(str) THEN W
    ELSE Only({IF V.res = FAIL THEN V ELSE WriteContent(V, str, i + 1, failAt) :
                 V \in {IF str[i] = QUOTE_CHAR
                        THEN csv_write_str(W, DOUBLE_QUOTES_STR, failAt)
                        ELSE csv_write_char(W, str[i], failAt)}})

\* Lines 567-585 of csv_write_field: the opening quote, the content and the
\* closing quote, written after W0; field_out gets the bytes of the field.
WriteQuoted(W0, need_quote, str, failAt) ==
    LET W1 == IF need_quote THEN csv_write_char(W0, QUOTE_CHAR, failAt) ELSE W0
        W2 == WriteContent(W1, str, 1, failAt)
        W3 == IF need_quote THEN csv_write_char(W2, QUOTE_CHAR, failAt) ELSE W2
    IN  IF W1.res = FAIL THEN W1
        ELSE IF W2.res = FAIL THEN W2
        ELSE IF W3.res = FAIL THEN W3
        ELSE [W3 EXCEPT !.field_out = Append(@, SubSeq(W3.out, Len(W0.out) + 1, Len(W3.out)))]

csv_write_field(W, w, field, field_idx, field_count, failAt) ==
    LET need_quote == IF w.quote_style = QUOTE_ALL THEN TRUE ELSE NeedQuoteScan(w, field)
    IN  Only({IF W4.res = FAIL THEN W4
              ELSE IF field_idx < field_count - 1
                   THEN csv_write_char(W4, w.field_delimiter, failAt)
                   ELSE W4 :
                W4 \in {WriteQuoted(W0, need_quote, CStr(field), failAt) :
                           W0 \in {[W EXCEPT !.need_quote = Append(@, need_quote)]}}})

\* WriteFields that goes on to the next field whatever csv_write_field returned
RECURSIVE WriteFields_KeepsGoing(_, _, _, _, _)
WriteFields_KeepsGoing(W, w, r, i, failAt) ==
    IF i >= csv_row_field_count(r) THEN W
    ELSE Only({WriteFields_KeepsGoing(V, w, r, i + 1, failAt) :
                 V \in {csv_write_field(W, w, csv_row_field_get(r, i), i,
                                        csv_row_field_count(r), failAt)}})

\* Lines 608-611: the loop over the fields, from field i.
RECURSIVE WriteFields(_, _, _, _, _)
WriteFields(W, w, r, i, failAt) ==
    IF i >= csv_row_field_count(r) THEN W
    ELSE Only({IF V.res = FAIL THEN V ELSE WriteFields(V, w, r, i + 1, failAt) :
                 V \in {csv_write_field(W, w, csv_row_field_get(r, i), i,
                                        csv_row_field_count(r), failAt)}})

\* csv_write_row without the special form for a single empty field
csv_write_row_NoSpecialForm(W, w, r, failAt) ==
    LET V == WriteFields(W, w, r, 0, failAt)
    IN  IF V.res = FAIL THEN V ELSE csv_write_newline(V, w, failAt)

csv_write_row(W, w, r, failAt) ==
    LET field_count == csv_row_field_count(r)
        V == IF field_count = 0 THEN W
             ELSE IF field_count = 1 /\ CStr(csv_row_field_get(r, 0)) = <<>>
                  THEN csv_write_str(W, DOUBLE_QUOTES_STR, failAt)
                  ELSE WriteFields(W, w, r, 0, failAt)
    IN  IF V.res = FAIL THEN V ELSE csv_write_newline(V, w, failAt)

\* What the environment may do to one step: <<io, io2, oom>>, where io says
\* that the step's fgetc fails, io2 that its second read (the lookahead) fails,
\* and oom names the allocation site whose malloc fails.
NoFailure == {<<FALSE, FALSE, "none">>}
\* The allocations of csv_error_new that may fail.
ErrorFailure == {"none", "err", "err_message"}
AnyFailure ==
    BOOLEAN \X BOOLEAN \X {"none", "buffer", "buffer_p", "row", "row_fields",
                           "new_p", "new_fields", "s", "err", "err_message"}

Locals ==
    [file |-> file, state |-> state, quoted |-> quoted, buffer |-> buffer, row |-> row,
     heap |-> heap, err |-> err, ndelim |-> ndelim, status |-> "loop", exit |-> 0]

WriterUnchanged == UNCHANGED <<writer, out, wrow, written, wret, phase, call, errs>>

Commit(L) ==
    /\ file' = L.file
    /\ state' = L.state
    /\ quoted' = L.quoted
    /\ buffer' = L.buffer
    /\ row' = L.row
    /\ heap' = L.heap
    /\ err' = L.err
    /\ ndelim' = L.ndelim
    /\ exit' = L.exit
    /\ pc' = IF L.status = "loop" THEN "loop" ELSE "idle"
    /\ ret' = IF L.status = "loop" THEN "none" ELSE L.status
    /\ rows' = IF L.status = "row" THEN Append(rows, Fields(L.row)) ELSE rows
    /\ UNCHANGED parser
    /\ WriterUnchanged

\* The caller calls with *err == NULL and stops calling after a failure.
Enter(Fs) ==
    /\ phase = "read"
    /\ pc = "idle"
    /\ err = NULL
    /\ \E F \in Fs : Commit(ParseBegin(Locals, F[3]))
    /\ start' = file.pos

Iteration(class, Fs) ==
    /\ \E F \in Fs :
         LET g == fgetc(file, F[1])
         IN  /\ ClassOf(g.c) = class
             /\ Commit(LoopBody([Locals EXCEPT !.file = g.f], g.c, F[2], F[3]))
    /\ UNCHANGED start

StartQuote(Fs) == pc = "loop" /\ state = ST_START /\ Iteration("quote", Fs)
StartEof(Fs) == pc = "loop" /\ state = ST_START /\ Iteration("eof", Fs)
StartEol(Fs) == pc = "loop" /\ state = ST_START /\ Iteration("eol", Fs)
StartDelim(Fs) == pc = "loop" /\ state = ST_START /\ Iteration("delim", Fs)
StartChar(Fs) == pc = "loop" /\ state = ST_START /\ Iteration("char", Fs)
InQuote(Fs) == pc = "loop" /\ state = ST_INFIELD /\ Iteration("quote", Fs)
InEof(Fs) == pc = "loop" /\ state = ST_INFIELD /\ Iteration("eof", Fs)
InEol(Fs) == pc = "loop" /\ state = ST_INFIELD /\ Iteration("eol", Fs)
InDelim(Fs) == pc = "loop" /\ state = ST_INFIELD /\ Iteration("delim", Fs)
InChar(Fs) == pc = "loop" /\ state = ST_INFIELD /\ Iteration("char", Fs)

ParseNext(Fs) ==
    \/ Enter(Fs)
    \/ StartQuote(Fs) \/ StartEof(Fs) \/ StartEol(Fs) \/ StartDelim(Fs) \/ StartChar(Fs)
    \/ InQuote(Fs) \/ InEof(Fs) \/ InEol(Fs) \/ InDelim(Fs) \/ InChar(Fs)

ParserIdle ==
    /\ pc = "idle"
    /\ state = ST_START
    /\ quoted = FALSE
    /\ buffer = buffer_new
    /\ row = csv_row_new
    /\ heap = {}
    /\ ret = "none"
    /\ err = NULL
    /\ rows = <<>>
    /\ start = 1
    /\ ndelim = 0
    /\ exit = 0

OutputIdle ==
    /\ out = <<>>
    /\ written = <<>>
    /\ wret = [res |-> SUCCEED, err |-> NULL, n |-> 0, from |-> 1, row |-> <<>>,
               need_quote |-> <<>>, field_out |-> <<>>, failAt |-> 0, oom |-> "none",
               partial |-> 0]
    /\ call = [op |-> "none"]
    /\ errs = <<[error_code |-> GLOBAL_OOM.error_code, message |-> GLOBAL_OOM.message,
                 freed |-> FALSE]>>

WriterIdle ==
    /\ wrow = csv_row_new
    /\ OutputIdle

\* A parser on a source holding any bytes, at most n of them.
ReadInit(n) ==
    /\ file \in {[data |-> d, pos |-> 1, error |-> FALSE] : d \in SeqsUpTo(InputBytes, n)}
    /\ parser \in {[field_delimiter |-> x] : x \in Delimiters}
    /\ ParserIdle
    /\ phase = "read"
    /\ writer = [field_delimiter |-> parser.field_delimiter, quote_style |-> QUOTE_MINIMAL,
                 line_break |-> LINEBREAK_LF]
    /\ WriterIdle

(***************************************************************************)
(* The writing program (example_dump_mysql_db.c): it appends fields to a   *)
(* row, writes the row, resets it; then the file is read back.             *)
(***************************************************************************)
\* The bytes fields are made of: text, and text with NUL bytes in it.
TextBytes == {QUOTE_CHAR, COMMA_CHAR, CR_CHAR, LF_CHAR, 97}
FieldBytes == TextBytes \cup {NUL}

\* What a row costs of the model's budget: one for the row, one for each
\* field, one for each byte.
RECURSIVE RowWeight(_)
RowWeight(fs) == IF fs = <<>> THEN 1 ELSE 1 + Len(Head(fs)) + RowWeight(Tail(fs))

RECURSIVE RowsWeight(_)
RowsWeight(rs) == IF rs = <<>> THEN 0 ELSE RowWeight(Head(rs)) + RowsWeight(Tail(rs))

ParserUnchanged ==
    UNCHANGED <<file, parser, pc, state, quoted, buffer, row, heap, ret, err, rows,
                start, ndelim, exit>>

AppendField(B, Bytes) ==
    /\ phase = "write"
    /\ LET room == B - RowsWeight(written) - RowWeight(Fields(wrow)) - 1
       IN  /\ room >= 0
           /\ \E f \in SeqsUpTo(Bytes, room) :
                 wrow' = csv_row_append_field(wrow, f, Len(f), "none", NULL).row
    /\ UNCHANGED <<writer, out, written, wret, phase, call, errs>>
    /\ ParserUnchanged

ResetRow ==
    /\ phase = "write"
    /\ wrow.len > 0
    /\ wrow' = csv_row_reset(wrow)
    /\ UNCHANGED <<writer, out, written, wret, phase, call, errs>>
    /\ ParserUnchanged

WriteRow(B, Fails, Ooms) ==
    /\ phase = "write"
    /\ wret.res = SUCCEED
    /\ RowsWeight(written) + RowWeight(Fields(wrow)) <= B
    /\ \E failAt \in Fails : \E oom \in (IF failAt = 0 THEN {"none"} ELSE Ooms) :
       \E partial \in (IF failAt = 0 THEN {0} ELSE 0..Len(DOUBLE_QUOTES_STR)) :
         LET W == csv_write_row([out |-> out, n |-> 0, res |-> SUCCEED, err |-> NULL,
                                 need_quote |-> <<>>, field_out |-> <<>>, oom |-> oom,
                                 partial |-> partial],
                                writer, wrow, failAt)
         IN  /\ out' = W.out
             /\ wret' = [res |-> W.res, err |-> W.err, n |-> W.n, from |-> Len(out) + 1,
                         row |-> Fields(wrow), need_quote |-> W.need_quote,
                         field_out |-> W.field_out, failAt |-> failAt, oom |-> oom,
                         partial |-> partial]
             /\ written' = IF W.res = SUCCEED THEN Append(written, Fields(wrow)) ELSE written
    /\ UNCHANGED <<writer, wrow, phase, call, errs>>
    /\ ParserUnchanged

\* The program is done writing: it frees the row, closes the file and opens
\* it for reading with a parser of the writer's delimiter.
Rewind ==
    /\ phase = "write"
    /\ wret.res = SUCCEED
    /\ phase' = "read"
    /\ file' = [data |-> out, pos |-> 1, error |-> FALSE]
    /\ wrow' = csv_row_new
    /\ UNCHANGED <<parser, pc, state, quoted, buffer, row, heap, ret, err, rows, start,
                   ndelim, exit, writer, out, written, wret, call, errs>>

\* A whole csv_parse_next_row call in which no read and no allocation fails.
NextRow ==
    /\ phase = "read"
    /\ pc = "idle"
    /\ err = NULL
    /\ Commit(csv_parse_next_row(file, err))
    /\ start' = file.pos

\* A writer that csv_writer_new made, with a delimiter of Ds.
WriteInit(Ds) ==
    /\ writer \in {csv_writer_new(d, q, l, "none", NULL).obj :
                       d \in Ds, q \in {QUOTE_ALL, QUOTE_MINIMAL},
                       l \in {LINEBREAK_LF, LINEBREAK_CRLF, LINEBREAK_CR}}
    /\ writer # NoObj
    /\ parser = [field_delimiter |-> writer.field_delimiter]
    /\ file = [data |-> <<>>, pos |-> 1, error |-> FALSE]
    /\ ParserIdle
    /\ WriterIdle
    /\ phase = "write"

\* Spec: no read and no allocation fails.
Init == ReadInit(MaxLen)

Next == ParseNext(NoFailure)

Spec == Init /\ [][Next]_vars

\* SpecEnv: any read and any allocation may fail.
InitEnv == ReadInit(MaxLenEnv)

NextEnv == ParseNext(AnyFailure)

SpecEnv == InitEnv /\ [][NextEnv]_vars

\* SpecW: a program that writes rows, no write failing.
InitW == WriteInit(Delimiters \cup {NUL})

NextW == AppendField(MaxWeightW, FieldBytes) \/ ResetRow \/ WriteRow(MaxWeightW, {0}, {"none"})

SpecW == InitW /\ [][NextW]_vars

\* SpecRT: a program that writes rows of text fields and reads them back,
\* nothing failing.
InitRT == WriteInit(Delimiters)

NextRT ==
    \/ AppendField(MaxWeight, TextBytes) \/ ResetRow \/ WriteRow(MaxWeight, {0}, {"none"})
    \/ Rewind \/ NextRow

SpecRT == InitRT /\ [][NextRT]_vars

(***************************************************************************)
(* A program that calls the constructors, each with *err == NULL.          *)
(***************************************************************************)
ParserState == <<file, pc, state, quoted, buffer, row, heap, ret, rows, start, ndelim, exit>>

WriterState == <<out, written, wret>>

\* The arguments a caller may pass, valid or not.
AnyDelimiter == {CR_CHAR, LF_CHAR, QUOTE_CHAR, 59, NUL}
AnyQuoteStyle == {-1, QUOTE_ALL, QUOTE_MINIMAL, 2}
AnyLineBreak == {LINEBREAK_LF, LINEBREAK_CRLF, LINEBREAK_CR, 3}
NewFailure == {"none", "parser", "writer", "err", "err_message"}

ParserNew ==
    /\ phase = "new"
    /\ \E oom \in NewFailure :
         LET r == csv_parser_new(oom, NULL)
         IN  /\ parser' = r.obj
             /\ err' = r.err
             /\ call' = [op |-> "csv_parser_new", oom |-> oom, obj |-> r.obj, err |-> r.err]
    /\ UNCHANGED <<ParserState, WriterState, writer, wrow, phase, errs>>

ParserNewWithFieldDelimiter ==
    /\ phase = "new"
    /\ \E d \in AnyDelimiter, oom \in NewFailure :
         LET r == csv_parser_new_with_field_delimiter(d, oom, NULL)
         IN  /\ parser' = r.obj
             /\ err' = r.err
             /\ call' = [op |-> "csv_parser_new_with_field_delimiter", field_delimiter |-> d,
                         oom |-> oom, obj |-> r.obj, err |-> r.err]
    /\ UNCHANGED <<ParserState, WriterState, writer, wrow, phase, errs>>

WriterNew ==
    /\ phase = "new"
    /\ \E d \in AnyDelimiter, q \in AnyQuoteStyle, l \in AnyLineBreak, oom \in NewFailure :
         LET r == csv_writer_new(d, q, l, oom, NULL)
         IN  /\ writer' = r.obj
             /\ err' = r.err
             /\ call' = [op |-> "csv_writer_new", field_delimiter |-> d, quote_style |-> q,
                         line_break |-> l, oom |-> oom, obj |-> r.obj, err |-> r.err]
    /\ UNCHANGED <<ParserState, WriterState, parser, wrow, phase, errs>>

WriterDefault ==
    /\ phase = "new"
    /\ \E oom \in NewFailure :
         LET r == csv_writer_default(oom, NULL)
         IN  /\ writer' = r.obj
             /\ err' = r.err
             /\ call' = [op |-> "csv_writer_default", oom |-> oom, obj |-> r.obj, err |-> r.err]
    /\ UNCHANGED <<ParserState, WriterState, parser, wrow, phase, errs>>

\* Nothing constructed yet.
ApiInit(ph) ==
    /\ phase = ph
    /\ parser = NoObj
    /\ writer = NoObj
    /\ file = [data |-> <<>>, pos |-> 1, error |-> FALSE]
    /\ ParserIdle
    /\ WriterIdle

\* SpecNew: the constructors, with any arguments, any allocation failing.
InitNew == ApiInit("new")

NextNew == ParserNew \/ ParserNewWithFieldDelimiter \/ WriterNew \/ WriterDefault

SpecNew == InitNew /\ [][NextNew]_vars

\* The kinds and messages a caller makes errors of.
ErrorKinds == {CSV_ENOMEMORY, CSV_EIO, CSV_EINVALID_FORMAT}

ErrorNew(N) ==
    /\ phase = "errors"
    /\ Len(errs) <= N
    /\ \E k \in ErrorKinds, oom \in ErrorFailure :
         LET r == csv_error_new_in(errs, k, "message", oom)
         IN  /\ errs' = r.errs
             /\ call' = [op |-> "csv_error_new", error_code |-> k, oom |-> oom,
                         addr |-> r.addr, mallocs |-> r.mallocs, before |-> errs]
    /\ UNCHANGED <<ParserState, WriterState, parser, writer, wrow, err, phase>>

\* The caller frees an error it holds, once.
ErrorFree ==
    /\ phase = "errors"
    /\ \E a \in 1..Len(errs) :
         /\ ~errs[a].freed
         /\ errs' = csv_error_free(errs, a)
         /\ call' = [op |-> "csv_error_free", addr |-> a, before |-> errs]
    /\ UNCHANGED <<ParserState, WriterState, parser, writer, wrow, err, phase>>

\* SpecErr: a program that makes and frees errors, any allocation failing.
InitErr == ApiInit("errors")

NextErr == ErrorNew(MaxErrs) \/ ErrorFree

SpecErr == InitErr /\ [][NextErr]_vars

(***************************************************************************)
(* A program that builds rows through the row functions, each call with    *)
(* *err == NULL.  call.appended is the history the program keeps itself:   *)
(* the fields of its successful appends since the row was created or last  *)
(* reset.                                                                  *)
(***************************************************************************)
\* The fields the program appends: empty, text, and bytes the format and C
\* strings give a meaning.
RowFields == {<<>>, <<97>>, <<NUL, QUOTE_CHAR>>}

\* A row after n <= RowInitCapacity appends to a new row, field i being the
\* one byte i.
Filled(n) ==
    [len |-> n, capacity |-> RowInitCapacity,
     fields |-> [i \in 1..RowInitCapacity |-> IF i <= n THEN << <<i>>, i >> ELSE <<>>]]

RowCalls == IF call.op = "none" THEN 0 ELSE call.n

RowAppended == IF call.op = "none" THEN Fields(wrow) ELSE call.appended

RowUnchanged == UNCHANGED <<ParserState, WriterState, parser, writer, err, phase, errs>>

RowNew(N) ==
    /\ phase = "rows"
    /\ RowCalls < N
    /\ \E oom \in {"none", "row", "row_fields"} :
         LET r == csv_row_new_err(oom, NULL)
         IN  /\ wrow' = r.obj
             /\ call' = [op |-> "csv_row_new", n |-> RowCalls + 1, oom |-> oom,
                         res |-> IF r.obj = NoObj THEN FAIL ELSE SUCCEED, err |-> r.err,
                         before |-> wrow, frees |-> <<>>, appended |-> <<>>]
    /\ RowUnchanged

RowAppendField(N) ==
    /\ phase = "rows"
    /\ wrow # NoObj
    /\ RowCalls < N
    /\ \E f \in RowFields, oom \in {"none", "new_fields", "s"} :
         LET r == csv_row_append_field(wrow, f, Len(f), oom, NULL)
         IN  /\ wrow' = r.row
             /\ call' = [op |-> "csv_row_append_field", n |-> RowCalls + 1, oom |-> oom,
                         field |-> f,
                         res |-> r.res, err |-> r.err, before |-> wrow, frees |-> <<>>,
                         appended |-> IF r.res = SUCCEED THEN Append(RowAppended, f)
                                      ELSE RowAppended]
    /\ RowUnchanged

RowReset(N) ==
    /\ phase = "rows"
    /\ wrow # NoObj
    /\ RowCalls < N
    /\ wrow' = csv_row_reset(wrow)
    /\ call' = [op |-> "csv_row_reset", n |-> RowCalls + 1, oom |-> "none",
                res |-> SUCCEED, err |-> NULL, before |-> wrow,
                frees |-> csv_row_reset_frees(wrow), appended |-> <<>>]
    /\ RowUnchanged

RowFree(N) ==
    /\ phase = "rows"
    /\ wrow # NoObj
    /\ RowCalls < N
    /\ wrow' = NoObj
    /\ call' = [op |-> "csv_row_free", n |-> RowCalls + 1, oom |-> "none",
                res |-> SUCCEED, err |-> NULL, before |-> wrow,
                frees |-> csv_row_free_frees(wrow), appended |-> <<>>]
    /\ RowUnchanged

\* SpecRow: the program starts with a new row or with one a field short of
\* its first slot table, and makes MaxRowCalls calls, any allocation failing.
InitRowApi ==
    /\ phase = "rows"
    /\ parser = NoObj
    /\ writer = NoObj
    /\ file = [data |-> <<>>, pos |-> 1, error |-> FALSE]
    /\ ParserIdle
    /\ wrow \in {csv_row_new, Filled(RowInitCapacity - 1)}
    /\ OutputIdle

NextRowApi ==
    \/ RowNew(MaxRowCalls) \/ RowAppendField(MaxRowCalls)
    \/ RowReset(MaxRowCalls) \/ RowFree(MaxRowCalls)

SpecRow == InitRowApi /\ [][NextRowApi]_vars

\* SpecBig: a parser on a source that starts, inside quotes or not, with
\* as many ordinary bytes as the parse buffer first holds, nothing failing.
BigBytes == {QUOTE_CHAR, COMMA_CHAR, CR_CHAR, LF_CHAR, NUL, 255}

LongRun == [i \in 1..BufferInitCapacity |-> IF i % 3 = 0 THEN NUL
                                             ELSE IF i % 3 = 1 THEN 255 ELSE 97]

InitBig ==
    /\ file \in {[data |-> q \o LongRun \o d, pos |-> 1, error |-> FALSE] :
                    q \in {<<>>, <<QUOTE_CHAR>>}, d \in SeqsUpTo(BigBytes, MaxLenBig)}
    /\ parser = csv_parser_new("none", NULL).obj
    /\ ParserIdle
    /\ phase = "read"
    /\ writer = csv_writer_default("none", NULL).obj
    /\ WriterIdle

NextBig == ParseNext(NoFailure)

SpecBig == InitBig /\ [][NextBig]_vars

\* SpecOom: a program that uses one part of the library (the constructors,
\* the errors, a row, a parser on a source that is short or fills the parse
\* buffer, or a writer) while any allocation, read or write may fail.
InitReadOom ==
    /\ file \in {[data |-> q \o d, pos |-> 1, error |-> FALSE] :
                    q \in {<<>>, LongRun, <<QUOTE_CHAR>> \o LongRun},
                    d \in SeqsUpTo(BigBytes, MaxLenOom)}
    /\ parser = csv_parser_new("none", NULL).obj
    /\ ParserIdle
    /\ phase = "read"
    /\ writer = csv_writer_default("none", NULL).obj
    /\ WriterIdle

InitOom == InitNew \/ InitErr \/ InitRowApi \/ InitReadOom \/ WriteInit({COMMA_CHAR})

NextOom ==
    \/ NextNew \/ NextErr \/ NextRowApi
    \/ ParseNext(AnyFailure)
    \/ AppendField(MaxWeightOom, TextBytes) \/ WriteRow(MaxWeightOom, 0..MaxFailAt, ErrorFailure)

SpecOom == InitOom /\ [][NextOom]_vars

\* SpecFail: a program that writes rows, any write of a csv_write_row
\* failing; no allocation fails.
InitFail == WriteInit({COMMA_CHAR})

NextFail ==
    \/ AppendField(MaxWeightFail, {QUOTE_CHAR, 97})
    \/ WriteRow(MaxWeightFail, 0..MaxFailAtW, {"none"})

SpecFail == InitFail /\ [][NextFail]_vars

\* SpecIo: any read may fail, no allocation does.
ReadFailure == BOOLEAN \X BOOLEAN \X {"none"}

InitIo == ReadInit(MaxLenEnv)

NextIo == ParseNext(ReadFailure)

SpecIo == InitIo /\ [][NextIo]_vars

\* SpecLive: no read and no allocation fails, and a call that has entered
\* its loop goes on running: the loop has no blocking step but the read,
\* and the source is a finite file.  The caller may stop calling.
LoopStep ==
    \/ StartQuote(NoFailure) \/ StartEof(NoFailure) \/ StartEol(NoFailure)
    \/ StartDelim(NoFailure) \/ StartChar(NoFailure)
    \/ InQuote(NoFailure) \/ InEof(NoFailure) \/ InEol(NoFailure)
    \/ InDelim(NoFailure) \/ InChar(NoFailure)

InitLive == ReadInit(MaxLenLive) /\ parser = csv_parser_new("none", NULL).obj

NextLive == ParseNext(NoFailure)

SpecLive == InitLive /\ [][NextLive]_vars /\ WF_vars(LoopStep)

(***************************************************************************)
(* The claims.                                                             *)
(***************************************************************************)

\* C1: write-then-parse round trip.  When the program has written the rows
\* `written` with csv_write_row under its writer's configuration and has then
\* called csv_parse_next_row on the produced bytes until it returned NULL, no
\* error was reported and the rows returned are exactly the rows written.
C1_RoundTrip ==
    (phase = "read" /\ pc = "idle" /\ ret = "null") => (err = NULL /\ rows = written)

(***************************************************************************)
(* The documented grammar (csv.h, lines 8-17), as a scanner over the input:*)
(* q is "F" at the start of a field, "U" in an unquoted field, "Q" inside  *)
(* quotes, "E" after a quote met inside quotes.  GScan gives the input as  *)
(* tokens, a row-ending line terminator (LF, CR or CRLF) being one token.  *)
(***************************************************************************)
Byte(b) == [eol |-> FALSE, b |-> b]
Eol == [eol |-> TRUE, b |-> LF_CHAR]

RECURSIVE GScan(_, _, _, _)
GScan(d, i, q, acc) ==
    IF i > Len(d) THEN [ok |-> q # "Q", q |-> q, toks |-> acc]
    ELSE LET c == d[i]
         IN  IF q = "Q"
             THEN GScan(d, i + 1, IF c = QUOTE_CHAR THEN "E" ELSE "Q", Append(acc, Byte(c)))
             ELSE IF c = QUOTE_CHAR
                  THEN IF q = "U" THEN [ok |-> FALSE, q |-> q, toks |-> acc]
                       ELSE GScan(d, i + 1, "Q", Append(acc, Byte(c)))
             ELSE IF c = parser.field_delimiter
                  THEN GScan(d, i + 1, "F", Append(acc, Byte(c)))
             ELSE IF c = CR_CHAR /\ i < Len(d) /\ d[i + 1] = LF_CHAR
                  THEN GScan(d, i + 2, "F", Append(acc, Eol))
             ELSE IF c = CR_CHAR \/ c = LF_CHAR
                  THEN GScan(d, i + 1, "F", Append(acc, Eol))
             ELSE IF q = "E" THEN [ok |-> FALSE, q |-> q, toks |-> acc]
             ELSE GScan(d, i + 1, "U", Append(acc, Byte(c)))

Grammar(d) == GScan(d, 1, "F", <<>>)

Legal(d) == Grammar(d).ok

\* The inputs the tokens stand for, each terminator written as LF, CR or CRLF.
RECURSIVE Spellings(_)
Spellings(toks) ==
    IF toks = <<>> THEN {<<>>}
    ELSE LET rest == Spellings(Tail(toks))
         IN  IF Head(toks).eol
             THEN {t \o r : t \in {LF_STR, CR_STR, CRLF_STR}, r \in rest}
             ELSE {<<Head(toks).b>> \o r : r \in rest}

\* The inputs that differ from d only in how each row-ending terminator is
\* spelled (a CR put right before a terminator LF would make one terminator
\* of two, and is no such input).
TerminatorVariants(d) ==
    {g \in Spellings(Grammar(d).toks) : Grammar(g).toks = Grammar(d).toks}

\* C2: terminator insensitivity.  When the calls on a legal input have come
\* to the NULL return, every input that differs only in the spelling of its
\* row-ending terminators parses to the same rows and the same final result.
C2_TerminatorInsensitive ==
    (pc = "idle" /\ ret = "null" /\ Legal(file.data))
        => \A g \in TerminatorVariants(file.data) :
              ParseAll(g) = [rows |-> rows, err |-> err]

\* C8: every input of the documented grammar parses without error.  When the
\* calls on a legal input have come to the NULL return, no error is set.
C8_LegalInputParses ==
    (pc = "idle" /\ ret = "null" /\ Legal(file.data)) => err = NULL

LastRow == rows[Len(rows)]

Returned == pc = "idle" /\ ret # "none"

\* C3: the three outcomes of a call.  A call returns on a row path with a
\* row and *err still NULL, on the end-of-input path (line 351) with NULL and
\* *err still NULL, or on a failure path (lines 313, 317, FAILURE_RETURN)
\* with NULL and *err set to an error; NULL with *err unset is returned only
\* at the end of a source without error, nothing having been read.
C3_ThreeOutcomes ==
    Returned =>
        /\ exit \in {347, 366, 409, 429, 443} => (ret = "row" /\ err = NULL)
        /\ exit = 351 => (ret = "null" /\ err = NULL)
        /\ exit \in {313, 317, 472} => (ret = "null" /\ err # NULL)
        /\ exit \in {313, 317, 347, 351, 366, 409, 429, 443, 472}
        /\ (ret = "null" /\ err = NULL)
               => (file.pos > Len(file.data) /\ ~file.error /\ file.pos = start)
        /\ (ret = "null" /\ err # NULL)
               => err.error_code \in {CSV_ENOMEMORY, CSV_EIO, CSV_EINVALID_FORMAT}

C3_Witness ==
    /\ Returned /\ ret = "null" /\ err.error_code = CSV_EINVALID_FORMAT
    /\ Len(rows) > 0
    /\ ~file.error

\* C4: empty row and empty field.  A call that starts at a line terminator
\* returns a row of zero fields; a call that starts at the two bytes `""`
\* followed by a line terminator returns a row of one field, the empty string.
C4_EmptyRowEmptyField ==
    (Returned /\ start <= Len(file.data)) =>
        LET d == file.data
        IN  /\ d[start] \in {CR_CHAR, LF_CHAR} => (ret = "row" /\ LastRow = <<>>)
            /\ (/\ start + 2 <= Len(d)
                /\ d[start] = QUOTE_CHAR /\ d[start + 1] = QUOTE_CHAR
                /\ d[start + 2] \in {CR_CHAR, LF_CHAR})
                   => (ret = "row" /\ LastRow = << <<>> >>)

C4_Witness ==
    /\ Returned /\ ret = "row" /\ LastRow = << <<>> >>
    /\ Len(rows) = 2 /\ rows[1] = <<>>
    /\ SubSeq(file.data, 1, 4) = <<CR_CHAR, QUOTE_CHAR, QUOTE_CHAR, CR_CHAR>>

\* C5: the empty final field.  A call that ends - at a line terminator or at
\* the end of the input - right after a delimiter that closed a field returns
\* a row whose last field is the empty string, and every row with a field has
\* one field more than the delimiters that closed a field in the call.
C5_TrailingDelimiter ==
    /\ (Returned /\ state = ST_START /\ ndelim > 0)
          => (/\ ret = "row"
              /\ Len(LastRow) = ndelim + 1
              /\ LastRow[Len(LastRow)] = <<>>
              /\ file.data[IF exit = 347 THEN Len(file.data)
                           ELSE IF file.data[file.pos - 1] = LF_CHAR
                                   /\ file.data[file.pos - 2] = CR_CHAR
                                THEN file.pos - 3 ELSE file.pos - 2]
                   = parser.field_delimiter)
    /\ (Returned /\ ret = "row" /\ Len(LastRow) > 0) => Len(LastRow) = ndelim + 1

C5_Witness ==
    /\ Returned /\ ret = "row" /\ exit = 347
    /\ file.data = <<97, COMMA_CHAR, COMMA_CHAR>>
    /\ LastRow = <<<<97>>, <<>>, <<>>>>

\* The quoted field whose opening quote is right before index i of d, read as
\* documented: `""` stands for one quote, a single quote closes the field.
RECURSIVE RefQuoted(_, _, _)
RefQuoted(d, i, acc) ==
    IF i > Len(d) THEN [closed |-> FALSE, body |-> acc, next |-> i]
    ELSE IF d[i] = QUOTE_CHAR
         THEN IF i + 1 <= Len(d) /\ d[i + 1] = QUOTE_CHAR
              THEN RefQuoted(d, i + 2, Append(acc, QUOTE_CHAR))
              ELSE [closed |-> TRUE, body |-> acc, next |-> i + 1]
         ELSE RefQuoted(d, i + 1, Append(acc, d[i]))

RECURSIVE RowBad(_, _, _)
RowBad(d, i, q) ==
    IF i > Len(d) THEN q \in {"Q", "E"}
    ELSE LET c == d[i]
         IN  IF q = "Q" THEN RowBad(d, i + 1, IF c = QUOTE_CHAR THEN "E" ELSE "Q")
             ELSE IF c = QUOTE_CHAR THEN (q = "U" \/ RowBad(d, i + 1, "Q"))
             ELSE IF c = parser.field_delimiter THEN RowBad(d, i + 1, "F")
             ELSE IF c = CR_CHAR \/ c = LF_CHAR THEN FALSE
             ELSE (q = "E" \/ RowBad(d, i + 1, "U"))

Segment == SubSeq(out, wret.from, Len(out))

\* The configured line terminator, as documented.
Terminator ==
    CASE writer.line_break = LINEBREAK_LF -> <<LF_CHAR>>
      [] writer.line_break = LINEBREAK_CRLF -> <<CR_CHAR, LF_CHAR>>
      [] writer.line_break = LINEBREAK_CR -> <<CR_CHAR>>

\* C9: the writer's special forms.  Under either quoting policy, writing a
\* row of no field succeeds and adds the line terminator alone, and writing a
\* row of exactly one field, the empty string, succeeds and adds the two
\* bytes `""` and the line terminator.
C9_SpecialForms ==
    wret.n > 0 =>
        /\ wret.row = <<>> => (wret.res = SUCCEED /\ Segment = Terminator)
        /\ wret.row = << <<>> >>
              => (wret.res = SUCCEED /\ Segment = <<QUOTE_CHAR, QUOTE_CHAR>> \o Terminator)

C9_Witness ==
    /\ wret.n > 0 /\ wret.row = << <<>> >>
    /\ writer.quote_style = QUOTE_MINIMAL /\ writer.line_break = LINEBREAK_CRLF
    /\ Len(written) = 2 /\ written[1] = <<>>
    /\ out = <<CR_CHAR, LF_CHAR, QUOTE_CHAR, QUOTE_CHAR, CR_CHAR, LF_CHAR>>

\* Whether a field holds a quote, a CR, an LF or the writer's delimiter.
HasSpecial(f) ==
    \E j \in 1..Len(f) : f[j] \in {QUOTE_CHAR, CR_CHAR, LF_CHAR, writer.field_delimiter}

\* C10: the quoting decision.  A row that is neither of the special forms is
\* written field by field, and each field is enclosed in quotes under
\* QUOTE_ALL, and under QUOTE_MINIMAL exactly when it holds a quote, a CR, an
\* LF or the delimiter.
C10_QuotingDecision ==
    (wret.n > 0 /\ wret.res = SUCCEED /\ Len(wret.need_quote) > 0) =>
        /\ Len(wret.need_quote) = Len(wret.row)
        /\ \A i \in 1..Len(wret.row) :
              wret.need_quote[i] = (writer.quote_style = QUOTE_ALL \/ HasSpecial(wret.row[i]))

\* The decision csv_write_field takes is the documented one for the bytes of
\* the field that precede its first NUL.
QuotingDecisionOfCString ==
    (wret.n > 0 /\ wret.res = SUCCEED /\ Len(wret.need_quote) > 0) =>
        /\ Len(wret.need_quote) = Len(wret.row)
        /\ \A i \in 1..Len(wret.row) :
              wret.need_quote[i] = (writer.quote_style = QUOTE_ALL \/ HasSpecial(CStr(wret.row[i])))

\* The number of quotes among the bytes s.
RECURSIVE CountQ(_)
CountQ(s) ==
    IF s = <<>> THEN 0
    ELSE (IF Head(s) = QUOTE_CHAR THEN 1 ELSE 0) + CountQ(Tail(s))

\* The last csv_write_row call succeeded in writing its row field by field.
WroteFields ==
    wret.n > 0 /\ wret.res = SUCCEED /\ Len(wret.field_out) > 0

RECURSIVE Joined(_, _)
Joined(fs, d) ==
    IF Len(fs) <= 1 THEN (IF fs = <<>> THEN <<>> ELSE fs[1])
    ELSE fs[1] \o <<d>> \o Joined(Tail(fs), d)

\* C12: row layout.  A row written field by field comes out as the outputs
\* of its fields in index order, exactly one delimiter byte after each field
\* but the last, and the configured terminator once after the last field,
\* whatever delimiter csv_writer_new accepted.
C12_RowLayout ==
    WroteFields =>
        /\ Len(wret.field_out) = Len(wret.row)
        /\ Segment = Joined(wret.field_out, writer.field_delimiter) \o Terminator

\* The layout is the documented one for every delimiter but NUL.
RowLayoutUnlessNulDelimiter == writer.field_delimiter # NUL => C12_RowLayout

\* The bytes s with each quote doubled.
RECURSIVE Doubled(_)
Doubled(s) ==
    IF s = <<>> THEN <<>>
    ELSE (IF Head(s) = QUOTE_CHAR THEN <<QUOTE_CHAR, QUOTE_CHAR>> ELSE <<Head(s)>>)
             \o Doubled(Tail(s))

\* C13: every byte of every field is written.  A row that is neither of the
\* special forms is written field by field, and the bytes written for a
\* field are all the bytes given to csv_row_append_field, in order, each
\* quote doubled and every other byte as it is, inside quotes or not.
C13_EveryByteWritten ==
    (wret.n > 0 /\ wret.res = SUCCEED /\ wret.row # <<>> /\ wret.row # << <<>> >>) =>
        /\ Len(wret.field_out) = Len(wret.row)
        /\ \A i \in 1..Len(wret.row) :
              wret.field_out[i] \in
                  {Doubled(wret.row[i]),
                   <<QUOTE_CHAR>> \o Doubled(wret.row[i]) \o <<QUOTE_CHAR>>}

\* The bytes written for a field are the bytes that precede its first NUL.
WritesCString ==
    WroteFields =>
        \A i \in 1..Len(wret.field_out) :
            wret.field_out[i] \in
                {Doubled(CStr(wret.row[i])),
                 <<QUOTE_CHAR>> \o Doubled(CStr(wret.row[i])) \o <<QUOTE_CHAR>>}

\* A byte that is neither the delimiter nor CR, LF or the quote.
Ordinary(c) ==
    c \in 0..255 /\ c \notin {parser.field_delimiter, CR_CHAR, LF_CHAR, QUOTE_CHAR}

\* The ordinary bytes among the bytes s, in order.
Ordinaries(s) == SelectSeq(s, Ordinary)

\* The fields of a row, one after the other.
RECURSIVE Flat(_)
Flat(fs) == IF fs = <<>> THEN <<>> ELSE Head(fs) \o Flat(Tail(fs))

\* The ordinary bytes of the row returned are those of the input the call
\* read, in the same order.
OrdinaryKept ==
    (Returned /\ ret = "row")
        => Ordinaries(Flat(LastRow)) = Ordinaries(SubSeq(file.data, start, file.pos - 1))

\* The step that reads an ordinary byte puts it at the end of the field being
\* read and ends neither the field nor the row.
OrdinaryStep ==
    (pc = "loop" /\ file.pos <= Len(file.data) /\ Ordinary(file.data[file.pos]))
        => /\ pc' = "loop"
           /\ state' = ST_INFIELD
           /\ row' = row
           /\ buffer'.len = buffer.len + 1
           /\ SubSeq(buffer'.p, 1, buffer'.len)
                 = Append(SubSeq(buffer.p, 1, buffer.len), file.data[file.pos])

\* C14: parser byte transparency.  Every byte read that is not the delimiter,
\* CR, LF or the quote is added to the field being read and ends neither the
\* field nor the row, and the rows returned hold these bytes as they are in
\* the source, in the same order - NUL and 255 included, and in fields longer
\* than the buffer's first capacity.
C14_ByteTransparency == []OrdinaryKept /\ [][OrdinaryStep]_vars

C14_Witness ==
    /\ Returned /\ ret = "row"
    /\ file.data = LongRun \o <<NUL, 255>>
    /\ LastRow = <<file.data>>
    /\ buffer.capacity = 2 * BufferInitCapacity

\* The error kinds of the arguments of the last constructor call that are
\* not valid.
Rejections ==
    (IF "field_delimiter" \in DOMAIN call /\ call.field_delimiter \in {CR_CHAR, LF_CHAR, QUOTE_CHAR}
     THEN {CSV_EINVALID_FIELD_DELIMITER} ELSE {})
    \cup (IF "quote_style" \in DOMAIN call /\ call.quote_style \notin {QUOTE_ALL, QUOTE_MINIMAL}
          THEN {CSV_EINVALID_QUOTE_STYLE} ELSE {})
    \cup (IF "line_break" \in DOMAIN call
             /\ call.line_break \notin {LINEBREAK_LF, LINEBREAK_CRLF, LINEBREAK_CR}
          THEN {CSV_EINVALID_LINEBREAK} ELSE {})

\* C15: construction-time validation.  A constructor called with a delimiter
\* that is CR, LF or the quote, a quote style that is neither QUOTE_ALL nor
\* QUOTE_MINIMAL, or a line break that is none of the three returns NULL and
\* sets *err to an error of the kind of an argument that is not valid (of
\* CSV_ENOMEMORY when allocating that error failed); so a parser or writer
\* that exists has a delimiter other than CR, LF and the quote, and a writer
\* a valid quote style and line break.
C15_ConstructionValidation ==
    /\ (call.op # "none" /\ Rejections # {}) =>
          /\ call.obj = NoObj
          /\ call.err # NULL
          /\ call.oom = "none" => call.err.error_code \in Rejections
          /\ call.err.error_code \in Rejections \cup {CSV_ENOMEMORY}
    /\ parser # NoObj => parser.field_delimiter \notin {CR_CHAR, LF_CHAR, QUOTE_CHAR}
    /\ writer # NoObj =>
          /\ writer.field_delimiter \notin {CR_CHAR, LF_CHAR, QUOTE_CHAR}
          /\ writer.quote_style \in {QUOTE_ALL, QUOTE_MINIMAL}
          /\ writer.line_break \in {LINEBREAK_LF, LINEBREAK_CRLF, LINEBREAK_CR}

C15_Witness ==
    /\ call.op = "csv_writer_new" /\ call.oom = "none"
    /\ call.field_delimiter = NUL /\ call.quote_style = QUOTE_ALL
    /\ call.line_break = 3
    /\ writer = NoObj /\ err.error_code = CSV_EINVALID_LINEBREAK
    /\ parser # NoObj /\ parser.field_delimiter = 59

\* C16: the out-of-memory sentinel.  csv_error_new with CSV_ENOMEMORY makes
\* no allocation and returns the one GLOBAL_OOM, as does a csv_error_new
\* whose allocation fails; csv_error_free on GLOBAL_OOM changes nothing, on
\* any other error it frees that error and nothing else; and GLOBAL_OOM keeps
\* its kind and its message whatever errors are made and freed.
C16_OomSentinel ==
    /\ errs[1] = [error_code |-> CSV_ENOMEMORY, message |-> "out of memory", freed |-> FALSE]
    /\ (call.op = "csv_error_new" /\ call.error_code = CSV_ENOMEMORY)
          => (call.addr = 1 /\ call.mallocs = 0 /\ errs = call.before)
    /\ (call.op = "csv_error_new" /\ call.oom # "none" /\ call.error_code # CSV_ENOMEMORY)
          => (call.addr = 1 /\ errs = call.before)
    /\ (call.op = "csv_error_new" /\ call.addr # 1)
          => (/\ call.addr = Len(call.before) + 1
              /\ errs[call.addr].error_code = call.error_code
              /\ csv_error_new(call.error_code, "message", call.oom)
                    = [error_code |-> errs[call.addr].error_code,
                       message |-> errs[call.addr].message])
    /\ (call.op = "csv_error_free" /\ call.addr = 1) => errs = call.before
    /\ (call.op = "csv_error_free" /\ call.addr # 1)
          => errs = [call.before EXCEPT ![call.addr].freed = TRUE]

C16_Witness ==
    /\ call.op = "csv_error_free" /\ call.addr = 1
    /\ Len(errs) = 3 /\ errs[2].freed /\ ~errs[3].freed
    /\ errs[3].error_code = CSV_EINVALID_FORMAT

\* Without a failing read or allocation, a call fails on no other row.
RejectsOnlyBadRows ==
    (Returned /\ ret = "null" /\ err # NULL) => RowBad(file.data, start, "F")

\* The written rows are read back when the terminator is LF or CR.
RoundTripUnlessCRLF == writer.line_break # LINEBREAK_CRLF => C1_RoundTrip

\* A legal input that does not end right after a closing quote parses
\* without error.
ParsesUnlessQuoteAtEof ==
    (pc = "idle" /\ ret = "null" /\ Legal(file.data) /\ Grammar(file.data).q # "E")
        => err = NULL

\* Every input that is not legal ends in an error.
RejectsIllegal ==
    (pc = "idle" /\ ret = "null" /\ ~Legal(file.data)) => err # NULL

QuoteCRLF(d) ==
    \E i \in 1..(Len(d) - 2) :
        d[i] = QUOTE_CHAR /\ d[i + 1] = CR_CHAR /\ d[i + 2] = LF_CHAR

\* The spelling of the terminators changes nothing between inputs in which
\* no quote is right before a CR LF.
TerminatorInsensitiveUnlessQuoteCRLF ==
    (pc = "idle" /\ ret = "null" /\ Legal(file.data) /\ ~QuoteCRLF(file.data))
        => \A g \in TerminatorVariants(file.data) :
              ~QuoteCRLF(g) => ParseAll(g) = [rows |-> rows, err |-> err]

\* C18: after any sequence of row creation, append and reset calls, the
\* field count of the row is the number of successful appends since it was
\* created or last reset, and slot i holds a copy of the bytes of append
\* i + 1, also past the 32 slots the row starts with, when the slot table
\* has been doubled.
C18_RowContents ==
    (call.op \in {"csv_row_new", "csv_row_append_field", "csv_row_reset"} /\ wrow # NoObj) =>
        /\ csv_row_field_count(wrow) = Len(call.appended)
        /\ \A i \in 0..(csv_row_field_count(wrow) - 1) :
              /\ wrow.fields[i + 1] # <<>>
              /\ wrow.fields[i + 1][1] = call.appended[i + 1]
        /\ csv_row_field_count(wrow) <= wrow.capacity

C18_Witness ==
    /\ call.op = "csv_row_append_field" /\ call.res = SUCCEED
    /\ csv_row_field_count(wrow) = RowInitCapacity + 1
    /\ wrow.capacity = 2 * RowInitCapacity
    /\ csv_row_field_get(wrow, RowInitCapacity) = <<NUL, QUOTE_CHAR>>
    /\ csv_row_field_get(wrow, 0) = <<1>>

\* The row after appending the fields fs in order, no allocation failing.
RECURSIVE AppendAll(_, _)
AppendAll(r, fs) ==
    IF fs = <<>> THEN r
    ELSE AppendAll(csv_row_append_field(r, Head(fs), Len(Head(fs)), "none", NULL).row, Tail(fs))

\* What csv_write_row writes for row r with writer w on an empty output.
WrittenRow(w, r) ==
    LET W == csv_write_row([out |-> <<>>, n |-> 0, res |-> SUCCEED, err |-> NULL,
                            need_quote |-> <<>>, field_out |-> <<>>, oom |-> "none",
                            partial |-> 0], w, r, 0)
    IN  <<W.res, W.out>>

\* Rows a and b are the same row to append, field count, field get and
\* csv_write_row: the same fields now and after any further appends, and
\* the same output.
SameRow(a, b) ==
    \A fs \in SeqsUpTo(RowFields, 2) :
        LET x == AppendAll(a, fs)
            y == AppendAll(b, fs)
        IN  /\ csv_row_field_count(x) = csv_row_field_count(y)
            /\ Fields(x) = Fields(y)
            /\ \A q \in {QUOTE_ALL, QUOTE_MINIMAL} :
                  WrittenRow(csv_writer_new(COMMA_CHAR, q, LINEBREAK_LF, "none", NULL).obj, x)
                    = WrittenRow(csv_writer_new(COMMA_CHAR, q, LINEBREAK_LF, "none", NULL).obj, y)

NewOomPropagated ==
    call.op \in {"csv_parser_new", "csv_parser_new_with_field_delimiter",
                 "csv_writer_new", "csv_writer_default"} =>
        LET r0 == CASE call.op = "csv_parser_new" -> csv_parser_new("none", NULL)
                    [] call.op = "csv_parser_new_with_field_delimiter" ->
                         csv_parser_new_with_field_delimiter(call.field_delimiter, "none", NULL)
                    [] call.op = "csv_writer_new" ->
                         csv_writer_new(call.field_delimiter, call.quote_style,
                                        call.line_break, "none", NULL)
                    [] OTHER -> csv_writer_default("none", NULL)
        IN  (call.obj # r0.obj \/ call.err # r0.err) =>
                (call.obj = NoObj /\ call.err = GLOBAL_OOM)

\* A csv_error_new call in which a malloc failed returned &GLOBAL_OOM and
\* left no error object behind.
ErrorOomPropagated ==
    call.op = "csv_error_new" =>
        LET r0 == csv_error_new_in(call.before, call.error_code, "message", "none")
        IN  (call.addr # r0.addr \/ errs # r0.errs) =>
                /\ call.addr = 1
                /\ errs[1].error_code = CSV_ENOMEMORY
                /\ errs = call.before

\* A row call whose outcome an allocation failure changed returned its
\* failure result with *err the out-of-memory error, the fields of the row
\* as they were.
RowOomPropagated ==
    /\ call.op = "csv_row_new" =>
          ((call.oom # "none" \/ wrow = NoObj) =>
              (wrow = NoObj /\ call.res = FAIL /\ call.err = GLOBAL_OOM))
    /\ call.op = "csv_row_append_field" =>
          LET r0 == csv_row_append_field(call.before, call.field, Len(call.field),
                                         "none", NULL)
          IN  (call.res # r0.res \/ wrow # r0.row) =>
                  /\ call.res = FAIL
                  /\ call.err = GLOBAL_OOM
                  /\ Fields(wrow) = Fields(call.before)

\* Whatever read or allocation fails in the next step of csv_parse_next_row,
\* if the allocation failure changes what the step does, the call returns
\* NULL with *err the out-of-memory error.
ParseOomPropagated ==
    /\ (phase = "read" /\ pc = "idle" /\ err = NULL) =>
          \A F \in AnyFailure :
              LET L == ParseBegin(Locals, F[3])
              IN  L # ParseBegin(Locals, "none") =>
                      (L.status = "null" /\ L.err = GLOBAL_OOM)
    /\ (phase = "read" /\ pc = "loop") =>
          \A F \in AnyFailure :
              LET g == fgetc(file, F[1])
                  L == LoopBody([Locals EXCEPT !.file = g.f], g.c, F[2], F[3])
              IN  L # LoopBody([Locals EXCEPT !.file = g.f], g.c, F[2], "none") =>
                      (L.status = "null" /\ L.err = GLOBAL_OOM)
    /\ (phase = "read" /\ ret = "null" /\ exit \in {313, 317}) => err = GLOBAL_OOM

\* A csv_write_row call that could not make its error returned FAIL with
\* *err the out-of-memory error.
WriteOomPropagated ==
    (phase = "write" /\ wret.n > 0) =>
        /\ (wret.res = FAIL /\ wret.oom # "none") => wret.err = GLOBAL_OOM
        /\ wret.res = FAIL => wret.err # NULL
        /\ (wret.res = SUCCEED /\ wret.failAt > 0) => wret.n < wret.failAt

\* C17: an operation in which a memory allocation fails (making an error,
\* a row, a parser or a writer, appending a field, growing the slot table
\* or the parse buffer, parsing the next row, writing a row) returns its
\* failure result with the error set to the out-of-memory error; it never
\* succeeds and never fails without an error.
C17_OomPropagated ==
    /\ NewOomPropagated
    /\ ErrorOomPropagated
    /\ RowOomPropagated
    /\ ParseOomPropagated
    /\ WriteOomPropagated

\* The parse buffer was full, its growth failed, and the call returned NULL
\* with the out-of-memory error.
C17_Witness ==
    /\ phase = "read" /\ pc = "idle" /\ ret = "null"
    /\ err = GLOBAL_OOM
    /\ buffer.len = BufferInitCapacity /\ buffer.capacity = BufferInitCapacity
    /\ heap = {}

\* The step in which a read of the source fails: fgetc returns EOF and sets
\* the error indicator.
ReadFails == ~ferror(file) /\ ferror(file')

\* C20: in either state, a step of csv_parse_next_row in which a read of
\* the source fails ends the call with NULL and an error of kind CSV_EIO,
\* the row and the buffer freed and no row handed to the caller.
C20_ReadFailureIsIO ==
    [][ReadFails =>
          /\ pc' = "idle" /\ ret' = "null"
          /\ err'.error_code = CSV_EIO
          /\ heap' = {}
          /\ rows' = rows]_vars

\* The read at the top of the loop is the one that failed: no byte was
\* consumed before it.
TopReadFails == ReadFails /\ file'.pos = file.pos

\* A failure of the read at the top of the loop ends the call with NULL and
\* CSV_EIO, everything freed; and no failed read is taken for the end of
\* the input.
TopReadFailureIsIO ==
    [][(TopReadFails => (/\ pc' = "idle" /\ ret' = "null"
                         /\ err'.error_code = CSV_EIO
                         /\ heap' = {}
                         /\ rows' = rows))
       /\ (ReadFails => ~(ret' = "null" /\ err' = NULL))]_vars

\* C21: when csv_parse_next_row returns NULL, with an error of any kind or
\* at the end of the input, the buffer and the row that call allocated
\* have both been freed.
C21_NoLeakOnFailure ==
    (phase = "read" /\ pc = "idle" /\ ret = "null") => heap = {}

\* Every NULL return but the one taken when csv_row_new fails leaves
\* nothing allocated; that one leaves the buffer.
NoLeakUnlessRowNewFails ==
    (phase = "read" /\ pc = "idle" /\ ret = "null") =>
        /\ exit # 317 => heap = {}
        /\ exit = 317 => (heap = {"buffer"} /\ err = GLOBAL_OOM)

\* The call returned a row that a line terminator ended (csv.c:366, 409, 443).
EndedByTerminator ==
    phase = "read" /\ pc = "idle" /\ ret = "row" /\ exit \in {366, 409, 443}

\* The next call starts right after the complete terminator: the last byte
\* consumed is a CR or an LF, and an LF that follows a CR was consumed with it.
AfterTerminator ==
    /\ file.pos > 1
    /\ file.data[file.pos - 1] \in {CR_CHAR, LF_CHAR}
    /\ file.data[file.pos - 1] = CR_CHAR =>
          ~(file.pos <= Len(file.data) /\ file.data[file.pos] = LF_CHAR)

\* C22: whenever a terminator ends a row, at an empty position, after an
\* unquoted field or after the closing quote of a quoted field, the parser
\* has consumed the LF that follows a CR and has pushed any other byte
\* back, so that the next call starts at the first byte after the terminator.
C22_CrLfCoalescing ==
    EndedByTerminator => AfterTerminator

\* The same for the rows not ended after a closing quote (csv.c:366, 443).
CrLfCoalescingUnquoted ==
    (EndedByTerminator /\ exit # 409) => AfterTerminator

\* The last call returned the end of the input: NULL and no error.
AtEnd == phase = "read" /\ pc = "idle" /\ ret = "null" /\ err = NULL

\* The last call returned a row that the end of the input ended (csv.c:347, 429).
EofEndedRow == phase = "read" /\ pc = "idle" /\ ret = "row" /\ exit \in {347, 429}

\* C23: on a source without read errors, once a call has returned the end
\* of the input every later call returns it too, no row and no error; and
\* the call after a row that the end of the input ended returns it: such a
\* row leaves nothing to read, and a call that starts (at position start)
\* with nothing to read returns the end of the input.
C23_EndOfInputStable ==
    /\ [](AtEnd => [](pc = "idle" => AtEnd))
    /\ []((AtEnd \/ EofEndedRow) => file.pos > Len(file.data))
    /\ [][(pc = "loop" /\ pc' = "idle" /\ start > Len(file.data)) =>
             (AtEnd' /\ rows' = rows)]_vars

\* A call that started at the end of the source, after a row the end of
\* the input ended, has returned the end of the input.
C23_Witness ==
    /\ AtEnd
    /\ start > Len(file.data)
    /\ rows # <<>>
    /\ file.data[Len(file.data)] \notin {CR_CHAR, LF_CHAR}

\* The parser is about to read a byte in state START.
ReadsInStart == phase = "read" /\ pc = "loop" /\ state = ST_START

\* C24: whenever the parser reads a byte in state START, quoted is false
\* and the buffer is empty; every step that goes to START, from a quoted or
\* an unquoted field closed by a delimiter, clears quoted and resets the
\* buffer; and every call begins in START.
C24_StartInvariant ==
    /\ [](ReadsInStart => (~quoted /\ buffer.len = 0))
    /\ [][(pc = "loop" /\ state = ST_INFIELD /\ pc' = "loop" /\ state' = ST_START) =>
             (~quoted' /\ buffer' = buffer_reset(buffer) /\ buffer'.len = 0)]_vars
    /\ [][(pc = "idle" /\ pc' = "loop") =>
             (state' = ST_START /\ ~quoted' /\ buffer' = buffer_new)]_vars

\* A delimiter has just closed a quoted field that was not empty.
C24_Witness ==
    /\ ReadsInStart
    /\ file.pos > 3
    /\ file.data[file.pos - 1] = parser.field_delimiter
    /\ file.data[file.pos - 2] = QUOTE_CHAR
    /\ file.data[start] = QUOTE_CHAR
    /\ row.len = 1 /\ csv_row_field_get(row, 0) # <<>>

\* C25: every call on a finite source returns; a call that returns a row
\* has consumed at least one byte, pushed-back bytes not counted; so the
\* rows returned are never more than the bytes consumed, and the caller
\* gets NULL after at most (number of bytes + 1) calls.
C25_TerminationAndProgress ==
    /\ (pc = "loop") ~> (pc = "idle")
    /\ []((pc = "idle" /\ ret = "row") => file.pos > start)
    /\ [](Len(rows) <= file.pos - 1 /\ file.pos - 1 <= Len(file.data))

\* As many rows as bytes: each call consumed exactly one byte.
C25_Witness ==
    /\ pc = "idle" /\ ret = "row"
    /\ Len(rows) = Len(file.data)
    /\ Len(rows) = MaxLenLive

\* The storage of a row is well formed: the field count is within the slot
\* table, the slots below it hold fields in blocks of their own, and the
\* slots from it up to the capacity are NULL.
RowStorage(r) ==
    /\ 0 <= r.len /\ r.len <= r.capacity
    /\ DOMAIN r.fields = 1..r.capacity
    /\ \A i \in 1..r.len : r.fields[i] # <<>>
    /\ \A i \in 1..r.len : \A j \in 1..r.len :
          i # j => (r.fields[i] # <<>> /\ r.fields[j] # <<>>
                    => r.fields[i][2] # r.fields[j][2])
    /\ \A i \in (r.len + 1)..r.capacity : r.fields[i] = <<>>

\* The blocks frees releases are the fields of r, each one once.
FreesEachFieldOnce(frees, r) ==
    LET released == {i \in DOMAIN frees : frees[i] # <<>>}
    IN  /\ DOMAIN frees = 1..r.capacity
        /\ released = 1..r.len
        /\ \A i \in released : frees[i] = r.fields[i]
        /\ \A i \in released : \A j \in released :
              i # j => frees[i][2] # frees[j][2]

\* C26: in every state of a row reached by csv_row_new,
\* csv_row_append_field (growing the slot table or not) and csv_row_reset,
\* 0 <= len <= capacity, every slot below len holds a field in a block no
\* other slot holds, and every slot from len up to capacity is NULL; so
\* csv_row_free, which passes every slot up to capacity to free, releases
\* each field exactly once and nothing else.
C26_RowStorage ==
    /\ (phase = "rows" /\ wrow # NoObj) => RowStorage(wrow)
    /\ (phase = "rows" /\ call.op = "csv_row_free")
          => (RowStorage(call.before) /\ FreesEachFieldOnce(call.frees, call.before))

C26_Witness ==
    /\ phase = "rows"
    /\ call.op = "csv_row_free"
    /\ call.before.capacity > RowInitCapacity
    /\ call.before.len > RowInitCapacity

FailedAppend == phase = "rows" /\ call.op = "csv_row_append_field" /\ call.res = FAIL

\* C27: when csv_row_append_field fails, growing the slot table or
\* allocating the copy, the error is the out-of-memory error, the field count
\* and every field the row held are what they were before the call, and the
\* row is still usable: its storage is well formed, the next append adds its
\* field after the ones held, the next reset empties it and the next free
\* releases each field once.
C27_FailedAppendFrame ==
    /\ [](FailedAppend =>
            /\ call.err = GLOBAL_OOM
            /\ wrow # NoObj
            /\ csv_row_field_count(wrow) = csv_row_field_count(call.before)
            /\ \A i \in 1..call.before.len : wrow.fields[i] = call.before.fields[i]
            /\ RowStorage(wrow))
    /\ [][(FailedAppend /\ call'.op = "csv_row_append_field" /\ call'.res = SUCCEED)
            => (/\ wrow'.len = wrow.len + 1
                /\ \A i \in 1..wrow.len : wrow'.fields[i] = wrow.fields[i]
                /\ wrow'.fields[wrow.len + 1] # <<>>
                /\ wrow'.fields[wrow.len + 1][1] = call'.field)]_vars
    /\ [][(FailedAppend /\ call'.op = "csv_row_reset")
            => (/\ wrow'.len = 0
                /\ \A i \in 1..wrow'.capacity : wrow'.fields[i] = <<>>
                /\ call'.frees = [i \in 1..wrow.len |-> wrow.fields[i]])]_vars
    /\ [][(FailedAppend /\ call'.op = "csv_row_free")
            => FreesEachFieldOnce(call'.frees, wrow)]_vars

C27_Witness ==
    /\ FailedAppend
    /\ call.oom = "s"
    /\ call.before.len = RowInitCapacity
    /\ call.before.capacity = RowInitCapacity
    /\ wrow.capacity = 2 * RowInitCapacity

\* A csv_write_row call has returned in which write number failAt was made
\* and failed.
WriteFailed == phase = "write" /\ wret.failAt > 0 /\ wret.n >= wret.failAt

\* What the call gets out, on the output it began with and with the fields
\* its row held, when write number failAt fails (none when failAt is 0).
WriteUnfailed(partial, failAt) ==
    csv_write_row([out |-> SubSeq(out, 1, wret.from - 1), n |-> 0, res |-> SUCCEED,
                   err |-> NULL, need_quote |-> <<>>, field_out |-> <<>>,
                   oom |-> "none", partial |-> partial], writer,
                  AppendAll(csv_row_new, wret.row), failAt)

\* C28: when a write fails during csv_write_row, the call returns FAIL with
\* an error of kind CSV_EIO, and the failed write is the last write of the
\* call: it is not made again, and the output holds the bytes of the writes
\* before it, at most some first bytes of the failed one, and nothing of what
\* the row would have got after it.
C28_WriteFailureStopsRow ==
    WriteFailed =>
        /\ wret.res = FAIL
        /\ wret.err # NULL /\ wret.err # GLOBAL_OOM
        /\ wret.err.error_code = CSV_EIO
        /\ wret.n = wret.failAt
        /\ LET whole == WriteUnfailed(0, 0).out
               before == WriteUnfailed(0, wret.failAt).out
           IN  /\ Len(before) <= Len(out) /\ Len(out) <= Len(whole)
               /\ Len(out) <= Len(before) + wret.partial
               /\ Len(out) <= Len(before) + Len(DOUBLE_QUOTES_STR)
               /\ before = SubSeq(out, 1, Len(before))
               /\ out = SubSeq(whole, 1, Len(out))

\* The write of a delimiter fails after a quoted field, another field yet
\* to be written.
C28_Witness ==
    /\ WriteFailed
    /\ wret.res = FAIL
    /\ Len(wret.row) = 2
    /\ wret.need_quote = <<TRUE>>
    /\ WriteUnfailed(0, wret.failAt).out = <<QUOTE_CHAR, QUOTE_CHAR, QUOTE_CHAR, QUOTE_CHAR>>

====
